---------------------------- MODULE Spec2Model ----------------------------
(***************************************************************************)
(* A model of gitlab-branch-ruler: the protection reconciler               *)
(* (EnsureBranchProtection), the paginated listers (ListProjects,          *)
(* ListSubgroups) and the group walker (ProcessGroup).                     *)
(*                                                                         *)
(* The repository holds two builds of internal/gitlab/client.go:           *)
(*   "client"   src/internal/gitlab/client.go  create, on conflict delete  *)
(*              then re-create; candidates main/master (+ default branch), *)
(*              each existence-checked;                                    *)
(*   "part_000" src/unnamed/part_000  create, on conflict update, verify   *)
(*              by read-back, then delete and re-create; default branch    *)
(*              only.                                                      *)
(* The variable build says which of the two runs.                          *)
(*                                                                         *)
(* The GitLab server is the environment.  It answers every call either     *)
(* with a transport failure (status 0, nothing applied), with an error     *)
(* status (nothing applied) or with its regular answer.                    *)
(***************************************************************************)
EXTENDS Integers, Sequences, FiniteSets, TLC

VARIABLES
    build,      \* which build of the client runs
    desired,    \* Client.pushAccessLevel, Client.mergeAccessLevel
    rules,      \* remote: (project, branch) -> protection rule or NoRule
    target,     \* the (project, branch) of the running EnsureBranchProtection
    rpc,        \* position inside EnsureBranchProtection
    result,     \* what EnsureBranchProtection returned
    calls,      \* remote calls of the running reconciliation, in order
    callNo,     \* number of reconciliations started
    startRule,  \* the remote rule when the running reconciliation started
    prev,       \* summary of the reconciliation that returned before this one
    actorSteps, \* removals of the rule by other actors
    endpoint,   \* the collection being listed: "projects" or "subgroups"
    total,      \* server: number of records of that collection
    pageSize,   \* server: records per page
    lpc,        \* position inside ListProjects / ListSubgroups
    page,       \* the lister's page counter
    all,        \* allProjects / allSubgroups, the records accumulated
    lresult,    \* what the lister returned
    reqs,       \* page requests of the running listing, in order
    faultsLeft, \* server: failures it may still answer with
    stack,      \* the ProcessGroup calls in progress, innermost last
    events      \* what the walk has done so far, in order

recVars == <<build, desired, rules, target, rpc, result, calls, callNo,
             startRule, prev, actorSteps>>
listVars == <<endpoint, total, pageSize, lpc, page, all, lresult, reqs>>
walkVars == <<stack, events>>
vars == <<recVars, listVars, faultsLeft, walkVars>>

-----------------------------------------------------------------------------
(* Bounds *)

MaxCalls == 2
MaxActorSteps == 1
MaxRecords == 5
MaxPageSize == 3
MaxWalkFaults == 1

-----------------------------------------------------------------------------
(* Values *)

Builds == {"client", "part_000"}

\* access levels a stored rule can carry, and the ones a configuration asks for
StoredLevels == {30, 40}
DesiredLevels == {30, 40}

NoRule == [push |-> -1, merge |-> -1]
Rule(p, m) == [push |-> p, merge |-> m]
StoredRules == {Rule(p, m) : p \in StoredLevels, m \in StoredLevels}

\* status codes of net/http used by the client
StatusOK == 200
StatusCreated == 201
StatusNotFound == 404
StatusConflict == 409
\* doJSON's status when the transport failed (return 0, nil, err)
NoStatus == 0

\* the error status the server may answer any call with (server error)
ErrorStatuses == {500}

-----------------------------------------------------------------------------
(* Formatting: strconv.Itoa / %d, and bytes.Contains *)

DigitChars == <<"0", "1", "2", "3", "4", "5", "6", "7", "8", "9">>

RECURSIVE Itoa(_)
Itoa(n) ==
    IF n < 10 THEN <<DigitChars[n + 1]>>
    ELSE Itoa(n \div 10) \o <<DigitChars[(n % 10) + 1]>>

\* bytes.Contains(data, pattern): pattern occurs as a contiguous run of data
BytesContains(data, pattern) ==
    \E i \in 0..(Len(data) - Len(pattern)) :
        \A j \in 1..Len(pattern) : data[i + j] = pattern[j]

\* fmt.Sprintf(`"access_level":%d`, level)
LevelPattern(level) == <<"\"access_level\":">> \o Itoa(level)

\* The body of GET /projects/:id/protected_branches/:name for a stored rule
ProtectionJSON(rule) ==
    <<"{", "\"push_access_levels\":[{", "\"access_level\":">> \o Itoa(rule.push)
    \o <<"}],", "\"merge_access_levels\":[{", "\"access_level\":">> \o Itoa(rule.merge)
    \o <<"}]", "}">>

\* The body of an error answer
ErrorJSON(status) == <<"{", "\"message\":\"">> \o Itoa(status) \o <<"\"", "}">>


-----------------------------------------------------------------------------
(* The GitLab server: its answers to the protected-branch calls.           *)
(* An answer is the status and the rule the server stores afterwards.      *)

Answer(status, rule) == [status |-> status, rule |-> rule]

\* every call may fail in transport or be answered with an error status
FailedAnswers(rule) ==
    {Answer(NoStatus, rule)} \cup {Answer(s, rule) : s \in ErrorStatuses}

\* POST /projects/:id/protected_branches -> 201 created, 409 already protected
CreateAnswers(rule, payload) ==
    FailedAnswers(rule) \cup
    (IF rule = NoRule THEN {Answer(StatusCreated, payload)}
                      ELSE {Answer(StatusConflict, rule)})

\* PATCH /projects/:id/protected_branches/:name -> success; the stored levels
\* are changed, changed in part, or left as they were
UpdateAnswers(rule, payload) ==
    FailedAnswers(rule) \cup
    (IF rule = NoRule THEN {Answer(StatusNotFound, rule)}
     ELSE {Answer(StatusOK, Rule(p, m)) :
              p \in {rule.push, payload.push}, m \in {rule.merge, payload.merge}})

\* GET /projects/:id/protected_branches/:name -> the representation of the rule
ReadAnswers(rule) ==
    {[status |-> NoStatus, body |-> <<>>]}
    \cup {[status |-> s, body |-> ErrorJSON(s)] : s \in ErrorStatuses}
    \cup (IF rule = NoRule
          THEN {[status |-> StatusNotFound, body |-> ErrorJSON(StatusNotFound)]}
          ELSE {[status |-> StatusOK, body |-> ProtectionJSON(rule)]})

\* DELETE /projects/:id/protected_branches/:name -> 204 removed, 404 absent
DeleteAnswers(rule) ==
    FailedAnswers(rule) \cup
    (IF rule = NoRule THEN {Answer(StatusNotFound, NoRule)}
                      ELSE {Answer(204, NoRule)})

-----------------------------------------------------------------------------
(* EnsureBranchProtection: what the client does with each answer *)

Nil == [ok |-> TRUE, msg |-> "", status |-> 0]
Pending == [ok |-> FALSE, msg |-> "pending", status |-> 0]
\* fmt.Errorf("<step> %d: %s", status, body)
StatusError(step, status) == [ok |-> FALSE, msg |-> step, status |-> status]
\* the *url.Error of http.Client.Do: Op is the method, e.g. Delete "https://..."
TransportError(op) == [ok |-> FALSE, msg |-> op, status |-> NoStatus]

Return(res) == [pc |-> "done", result |-> res]
Goto(pc) == [pc |-> pc, result |-> Pending]

\* the body both builds send: the desired levels
Payload(d) == Rule(d.push, d.merge)

CreateStep(b) == IF b = "part_000" THEN "create" ELSE "create failed"
DeleteStep(b) == IF b = "part_000" THEN "delete" ELSE "delete failed"
RecreateStep(b) == IF b = "part_000" THEN "re-create" ELSE "re-create failed"

\* after the first POST
AfterCreate(b, status) ==
    IF status = NoStatus THEN Return(TransportError("Post"))
    ELSE IF status = StatusCreated THEN Return(Nil)
    ELSE IF status # StatusConflict THEN Return(StatusError(CreateStep(b), status))
    ELSE IF b = "part_000" THEN Goto("update")
    ELSE Goto("delete")

\* (mutant) an update answered with an error status is returned as the error
AfterUpdateSurfacing(status) ==
    IF status = NoStatus THEN Return(TransportError("Patch"))
    ELSE IF status < 400 THEN Goto("verify")
    ELSE Return(StatusError("update", status))

\* after the PATCH (part_000 only)
AfterUpdate(status) ==
    IF status = NoStatus THEN Return(TransportError("Patch"))
    ELSE IF status < 400 THEN Goto("verify")
    ELSE Goto("delete")

\* protectionHasLevel: the level's pattern occurs in the body read back
ProtectionHasLevel(body, level) == BytesContains(body, LevelPattern(level))

\* after the read-back (part_000 only)
AfterVerify(status, body, level) ==
    IF status = NoStatus THEN Return(TransportError("Get"))
    ELSE IF ProtectionHasLevel(body, level) THEN Return(Nil)
    ELSE Goto("delete")

\* (mutant) the DELETE's status is not looked at
AfterDeleteUnchecked(b, status) ==
    IF status = NoStatus THEN Return(TransportError("Delete"))
    ELSE Goto("recreate")

\* after the DELETE
AfterDelete(b, status) ==
    IF status = NoStatus THEN Return(TransportError("Delete"))
    ELSE IF status >= 400 THEN Return(StatusError(DeleteStep(b), status))
    ELSE Goto("recreate")

\* (mutant) the status of the re-create is not looked at
AfterRecreateSwallowing(b, status) ==
    IF status = NoStatus THEN Return(TransportError("Post"))
    ELSE Return(Nil)

\* (mutant) a re-create answered with an error status is tried again
AfterRecreateRetrying(b, status) ==
    IF status = NoStatus THEN Return(TransportError("Post"))
    ELSE IF status >= 400 THEN Goto("recreate")
    ELSE Return(Nil)

\* after the second POST
AfterRecreate(b, status) ==
    IF status = NoStatus THEN Return(TransportError("Post"))
    ELSE IF status >= 400 THEN Return(StatusError(RecreateStep(b), status))
    ELSE Return(Nil)

\* a call of the log: the method, the status, and for a read-back the rule
\* its body showed (NoRule when the body showed none)
Called(op, status, shown) == [op |-> op, status |-> status, shown |-> shown]

\* every call of the log was answered as a healthy server answers it
Clean(log) ==
    \A i \in 1..Len(log) :
        log[i].status \in {StatusOK, StatusCreated, 204, StatusConflict}

Summary(res, start, rule, log) ==
    [returned |-> TRUE, result |-> res, start |-> start, rule |-> rule,
     clean |-> Clean(log)]
NoSummary ==
    [returned |-> FALSE, result |-> Pending, start |-> NoRule, rule |-> NoRule,
     clean |-> FALSE]

\* one remote call was answered: the server's rule, the call log, the position
Step(op, status, rule, shown, next, regular) ==
    /\ regular \/ faultsLeft > 0
    /\ faultsLeft' = IF regular THEN faultsLeft ELSE faultsLeft - 1
    /\ rules' = [rules EXCEPT ![target] = rule]
    /\ calls' = Append(calls, Called(op, status, shown))
    /\ rpc' = next.pc
    /\ result' = next.result
    /\ UNCHANGED <<build, desired, target, callNo, startRule, prev, actorSteps>>

DoCreate ==
    /\ rpc = "create"
    /\ \E a \in CreateAnswers(rules[target], Payload(desired)) :
          Step("POST", a.status, a.rule, NoRule, AfterCreate(build, a.status),
               a.status \in {StatusCreated, StatusConflict})

DoUpdate ==
    /\ rpc = "update"
    /\ \E a \in UpdateAnswers(rules[target], Payload(desired)) :
          Step("PATCH", a.status, a.rule, NoRule, AfterUpdate(a.status),
               \/ a.status = StatusNotFound
               \/ a.status = StatusOK /\ a.rule = Payload(desired))

DoVerify ==
    /\ rpc = "verify"
    /\ \E a \in ReadAnswers(rules[target]) :
          Step("GET", a.status, rules[target],
               IF a.status = StatusOK THEN rules[target] ELSE NoRule,
               AfterVerify(a.status, a.body, desired.push),
               a.status \in {StatusOK, StatusNotFound})

DoDelete ==
    /\ rpc = "delete"
    /\ \E a \in DeleteAnswers(rules[target]) :
          Step("DELETE", a.status, a.rule, NoRule, AfterDelete(build, a.status),
               a.status \in {204, StatusNotFound})

DoRecreate ==
    /\ rpc = "recreate"
    /\ \E a \in CreateAnswers(rules[target], Payload(desired)) :
          Step("POST", a.status, a.rule, NoRule, AfterRecreate(build, a.status),
               a.status \in {StatusCreated, StatusConflict})

Active == {"create", "update", "verify", "delete", "recreate"}

\* another actor (a user, another run) removes the rule between two calls
\* of a running reconciliation
OtherActor ==
    /\ rpc \in Active \ {"create"}
    /\ actorSteps < MaxActorSteps
    /\ rules[target] # NoRule
    /\ rules' = [rules EXCEPT ![target] = NoRule]
    /\ actorSteps' = actorSteps + 1
    /\ UNCHANGED <<build, desired, target, rpc, result, calls, callNo,
                   startRule, prev, faultsLeft>>

-----------------------------------------------------------------------------
(* The GitLab server: its answers to a page request of a listing.          *)
(* The collection holds the records 1..total; page k holds the records     *)
(* (k-1)*size+1 .. k*size of it.                                            *)

\* per_page of the request; the server serves at most that many per page
PerPage == 100

Min(a, b) == IF a < b THEN a ELSE b

ServedPageSize == Min(PerPage, pageSize)

PageRecords(k) ==
    LET lo == (k - 1) * ServedPageSize + 1
        hi == Min(k * ServedPageSize, total)
    IN  [i \in 1..(IF hi >= lo THEN hi - lo + 1 ELSE 0) |-> lo + i - 1]

\* X-Next-Page of page k: the next page's number, empty on the last page
NextPageHeader(k) == IF k * ServedPageSize < total THEN Itoa(k + 1) ELSE <<>>

ArrayBody(items) == [kind |-> "array", items |-> items]
ObjectBody == [kind |-> "object", items |-> <<>>]

PageAnswer(status, body, next) == [status |-> status, body |-> body, next |-> next]

\* the answer of a healthy server
RegularPage(k) == PageAnswer(StatusOK, ArrayBody(PageRecords(k)), NextPageHeader(k))

\* A page request fails in transport (status 0), or is answered with a status,
\* a body (the page, an empty array, or a JSON object such as an error
\* message) and with or without the next-page header.
PageAnswers(k) ==
    {PageAnswer(NoStatus, ObjectBody, <<>>)}
    \cup {PageAnswer(s, b, n) :
            s \in {StatusOK} \cup ErrorStatuses,
            b \in {ArrayBody(PageRecords(k)), ArrayBody(<<>>), ObjectBody},
            n \in {<<>>, Itoa(k + 1)}}

-----------------------------------------------------------------------------
(* ListProjects / ListSubgroups *)

NotListed == [ok |-> FALSE, items |-> <<>>, err |-> "pending"]
Listed(items) == [ok |-> TRUE, items |-> items, err |-> ""]
ListError(err) == [ok |-> FALSE, items |-> <<>>, err |-> err]

\* json.NewDecoder(resp.Body).Decode(&page): an array decodes to its records,
\* anything else is an error
Decode(body) ==
    IF body.kind = "array" THEN [err |-> FALSE, items |-> body.items]
    ELSE [err |-> TRUE, items |-> <<>>]

\* (mutant) the page is put in front of the records collected so far
PrependPage(acc, items) == items \o acc

\* allProjects = append(allProjects, pageProjects...)
AppendPage(acc, items) == acc \o items

\* (mutant) the next-page header is not looked at
LoopIgnoringHeader(a, acc) ==
    IF a.status = NoStatus THEN [pc |-> "done", all |-> acc, result |-> ListError("transport")]
    ELSE IF Decode(a.body).err THEN [pc |-> "done", all |-> acc, result |-> ListError("decode")]
    ELSE IF Len(Decode(a.body).items) = 0 THEN [pc |-> "done", all |-> acc, result |-> Listed(acc)]
    ELSE [pc |-> "fetch", all |-> AppendPage(acc, Decode(a.body).items), result |-> NotListed]

\* one turn of the loop on the answer a, with acc collected so far
LoopTurn(a, acc) ==
    IF a.status = NoStatus
    THEN [pc |-> "done", all |-> acc, result |-> ListError("transport")]
    ELSE IF Decode(a.body).err
    THEN [pc |-> "done", all |-> acc, result |-> ListError("decode")]
    ELSE IF Len(Decode(a.body).items) = 0
    THEN [pc |-> "done", all |-> acc, result |-> Listed(acc)]
    ELSE IF a.next = <<>>
    THEN [pc |-> "done", all |-> AppendPage(acc, Decode(a.body).items),
          result |-> Listed(AppendPage(acc, Decode(a.body).items))]
    ELSE [pc |-> "fetch", all |-> AppendPage(acc, Decode(a.body).items),
          result |-> NotListed]

\* the caller enters ListProjects(groupID) or ListSubgroups(groupID); the
\* group's collection of that kind holds n records
ListEnter(kind, n) ==
    /\ lpc \in {"idle", "done"}
    /\ endpoint' = kind
    /\ total' = n
    /\ lpc' = "fetch"
    /\ page' = 1
    /\ all' = <<>>
    /\ lresult' = NotListed
    /\ reqs' = <<>>
    /\ UNCHANGED <<pageSize, faultsLeft>>

ListStart ==
    /\ lpc = "idle"
    /\ ListEnter(endpoint, total)

\* one page request and what the loop does with its answer
FetchPage ==
    /\ lpc = "fetch"
    /\ \E a \in PageAnswers(page) :
          LET turn == LoopTurn(a, all) IN
          /\ a = RegularPage(page) \/ faultsLeft > 0
          /\ faultsLeft' = IF a = RegularPage(page) THEN faultsLeft
                           ELSE faultsLeft - 1
          /\ reqs' = Append(reqs, [page |-> page, answer |-> a,
                                   regular |-> a = RegularPage(page)])
          /\ lpc' = turn.pc
          /\ all' = turn.all
          /\ lresult' = turn.result
          /\ page' = IF turn.pc = "fetch" THEN page + 1 ELSE page
    /\ UNCHANGED <<endpoint, total, pageSize>>

-----------------------------------------------------------------------------
(* The reconciler alone: EnsureBranchProtection called again and again on   *)
(* one (project, branch), from every remote state.                          *)

TheKey == <<1, "main">>

\* the caller enters EnsureBranchProtection(projectID, branchName)
Enter(key) ==
    /\ rpc \in {"idle", "done"}
    /\ target' = key
    /\ rpc' = "create"
    /\ result' = Pending
    /\ calls' = <<>>
    /\ callNo' = callNo + 1
    /\ startRule' = rules[key]
    /\ prev' = IF rpc = "done" THEN Summary(result, startRule, rules[target], calls)
               ELSE NoSummary
    /\ UNCHANGED <<build, desired, rules, actorSteps, faultsLeft>>

Call ==
    /\ callNo < MaxCalls
    /\ Enter(target)

InitRec ==
    /\ build \in Builds
    /\ desired \in [push : DesiredLevels, merge : DesiredLevels]
    /\ rules \in [{TheKey} -> StoredRules \cup {NoRule}]
    /\ target = TheKey
    /\ rpc = "idle"
    /\ result = Pending
    /\ calls = <<>>
    /\ callNo = 0
    /\ startRule = NoRule
    /\ prev = NoSummary
    /\ actorSteps = 0
    /\ endpoint = "projects"
    /\ total = 0
    /\ pageSize = 1
    /\ lpc = "idle"
    /\ page = 1
    /\ all = <<>>
    /\ lresult = NotListed
    /\ reqs = <<>>
    /\ faultsLeft = 5 * MaxCalls
    /\ stack = <<>>
    /\ events = <<>>

NextRec ==
    \/ Call /\ UNCHANGED <<listVars, walkVars>>
    \/ DoCreate /\ UNCHANGED <<listVars, walkVars>>
    \/ DoUpdate /\ UNCHANGED <<listVars, walkVars>>
    \/ DoVerify /\ UNCHANGED <<listVars, walkVars>>
    \/ DoDelete /\ UNCHANGED <<listVars, walkVars>>
    \/ DoRecreate /\ UNCHANGED <<listVars, walkVars>>
    \/ OtherActor /\ UNCHANGED <<listVars, walkVars>>

SpecRec == InitRec /\ [][NextRec]_vars

-----------------------------------------------------------------------------
(* A lister alone: one listing of a collection of 0..MaxRecords records     *)
(* served in pages of 1..MaxPageSize records.                               *)

InitList ==
    /\ build \in Builds
    /\ desired = [push |-> 30, merge |-> 30]
    /\ rules = [k \in {TheKey} |-> NoRule]
    /\ target = TheKey
    /\ rpc = "idle"
    /\ result = Pending
    /\ calls = <<>>
    /\ callNo = 0
    /\ startRule = NoRule
    /\ prev = NoSummary
    /\ actorSteps = 0
    /\ endpoint \in {"projects", "subgroups"}
    /\ total \in 0..MaxRecords
    /\ pageSize \in 1..MaxPageSize
    /\ lpc = "idle"
    /\ page = 1
    /\ all = <<>>
    /\ lresult = NotListed
    /\ reqs = <<>>
    /\ faultsLeft = MaxRecords + 1
    /\ stack = <<>>
    /\ events = <<>>

NextList ==
    \/ ListStart /\ UNCHANGED <<recVars, walkVars>>
    \/ FetchPage /\ UNCHANGED <<recVars, walkVars>>

SpecList == InitList /\ [][NextList]_vars

-----------------------------------------------------------------------------
(* The remote group tree walked by ProcessGroup:                            *)
(*                                                                          *)
(*   group 1 (root)  projects 11 (develop), 12 (main)                       *)
(*     group 2       project 21 (master)                                    *)
(*       group 4     project 41 (develop)                                   *)
(*     group 3       project 31 (empty repository, no default branch)       *)

RootGroup == 1
Groups == {1, 2, 3, 4}
Subgroups == (1 :> <<2, 3>>) @@ (2 :> <<4>>) @@ (3 :> <<>>) @@ (4 :> <<>>)
ProjectsOf == (1 :> <<11, 12>>) @@ (2 :> <<21>>) @@ (3 :> <<31>>) @@ (4 :> <<41>>)
Projects == {11, 12, 21, 31, 41}
BranchNames == {"develop", "main", "master"}
DefaultBranch ==
    (11 :> "develop") @@ (12 :> "main") @@ (21 :> "master") @@ (31 :> "")
    @@ (41 :> "develop")
Branches ==
    (11 :> {"develop", "main"}) @@ (12 :> {"main", "master"})
    @@ (21 :> {"master"}) @@ (31 :> {}) @@ (41 :> {"develop"})
Keys == Projects \X BranchNames

\* GET /projects/:id/repository/branches/:name -> 200 found, 404 not found
ExistsAnswers(p, b) ==
    {NoStatus} \cup ErrorStatuses
    \cup (IF b \in Branches[p] THEN {StatusOK} ELSE {StatusNotFound})

\* (mutant) only "not found" keeps a branch from being reconciled
BranchExistsLenient(status) ==
    IF status = StatusNotFound THEN "notfound" ELSE "found"

\* BranchExists: 200 is true, 404 is false, anything else an error
BranchExists(status) ==
    IF status = NoStatus THEN "error"
    ELSE IF status = StatusOK THEN "found"
    ELSE IF status = StatusNotFound THEN "notfound"
    ELSE "error"

\* (mutant) client.go build: a non-empty default branch is always prepended
ProtectedBranchesPrepending(b, p) ==
    IF b = "part_000"
    THEN (IF DefaultBranch[p] = "" THEN <<>> ELSE <<DefaultBranch[p]>>)
    ELSE (IF DefaultBranch[p] # ""
          THEN <<DefaultBranch[p], "main", "master">>
          ELSE <<"main", "master">>)

\* (mutant) part_000 build: main and master are tried as well
ProtectedBranchesConventional(b, p) ==
    IF DefaultBranch[p] # "" /\ DefaultBranch[p] # "main"
         /\ DefaultBranch[p] # "master"
    THEN <<DefaultBranch[p], "main", "master">>
    ELSE <<"main", "master">>

\* the branches ProcessGroup tries for a project, in order
ProtectedBranches(b, p) ==
    IF b = "part_000"
    THEN (IF DefaultBranch[p] = "" THEN <<>> ELSE <<DefaultBranch[p]>>)
    ELSE (IF DefaultBranch[p] # "" /\ DefaultBranch[p] # "main"
               /\ DefaultBranch[p] # "master"
          THEN <<DefaultBranch[p], "main", "master">>
          ELSE <<"main", "master">>)

-----------------------------------------------------------------------------
(* ProcessGroup *)

Frame(g) == [group |-> g, phase |-> "listProjects", projs |-> <<>>, pi |-> 1,
             ci |-> 1, subs |-> <<>>, si |-> 1]

Top == stack[Len(stack)]
SetTop(f) == [stack EXCEPT ![Len(stack)] = f]
Walking(phase) == Len(stack) > 0 /\ Top.phase = phase

\* n: for a listing the number of records returned, for an existence check
\* the status answered
Event(kind, g, p, b, out) ==
    [kind |-> kind, group |-> g, project |-> p, branch |-> b, out |-> out,
     n |-> 0]
Counted(e, n) == [e EXCEPT !.n = n]
Log(e) == events' = Append(events, e)

CurProject == Top.projs[Top.pi]
CurBranches == ProtectedBranches(build, CurProject)
CurBranch == CurBranches[Top.ci]

\* glClient.ListProjects(groupID) is called
WalkListProjects ==
    /\ Walking("listProjects")
    /\ ListEnter("projects", Len(ProjectsOf[Top.group]))
    /\ stack' = SetTop([Top EXCEPT !.phase = "projectsListed"])
    /\ UNCHANGED <<events, recVars>>

\* (mutant) a failed project listing makes ProcessGroup return
WalkProjectsReturning ==
    /\ Walking("projectsListed")
    /\ lpc = "done"
    /\ stack' =
          IF lresult.ok
          THEN SetTop([Top EXCEPT !.phase = "project", !.pi = 1,
                           !.projs = [i \in 1..Len(lresult.items) |->
                                         ProjectsOf[Top.group][lresult.items[i]]]])
          ELSE SubSeq(stack, 1, Len(stack) - 1)
    /\ Log(Counted(Event("listProjects", Top.group, 0, "",
                         IF lresult.ok THEN "ok" ELSE "error"),
                   Len(lresult.items)))
    /\ UNCHANGED <<listVars, recVars, faultsLeft>>

\* ListProjects returned: on an error go on to the subgroups, else loop
WalkProjects ==
    /\ Walking("projectsListed")
    /\ lpc = "done"
    /\ stack' = SetTop(
          IF lresult.ok
          THEN [Top EXCEPT !.phase = "project", !.pi = 1,
                           !.projs = [i \in 1..Len(lresult.items) |->
                                         ProjectsOf[Top.group][lresult.items[i]]]]
          ELSE [Top EXCEPT !.phase = "listSubgroups"])
    /\ Log(Counted(Event("listProjects", Top.group, 0, "",
                         IF lresult.ok THEN "ok" ELSE "error"),
                   Len(lresult.items)))
    /\ UNCHANGED <<listVars, recVars, faultsLeft>>

\* for _, project := range projectList
WalkProject ==
    /\ Walking("project")
    /\ stack' = SetTop(
          IF Top.pi > Len(Top.projs)
          THEN [Top EXCEPT !.phase = "listSubgroups"]
          ELSE [Top EXCEPT !.phase = "branch", !.ci = 1])
    /\ UNCHANGED <<events, listVars, recVars, faultsLeft>>

\* the branches of the project are done (or it has none): next project
WalkProjectDone ==
    /\ Walking("branch")
    /\ Top.ci > Len(CurBranches)
    /\ stack' = SetTop([Top EXCEPT !.phase = "project", !.pi = Top.pi + 1])
    /\ UNCHANGED <<events, listVars, recVars, faultsLeft>>

\* glClient.BranchExists(project.ID, branch) (client.go build): an error or
\* "not found" skips the branch
WalkBranchExists ==
    /\ Walking("branch")
    /\ Top.ci <= Len(CurBranches)
    /\ build = "client"
    /\ \E status \in ExistsAnswers(CurProject, CurBranch) :
          LET regular == status \in {StatusOK, StatusNotFound}
              out == BranchExists(status) IN
          /\ regular \/ faultsLeft > 0
          /\ faultsLeft' = IF regular THEN faultsLeft ELSE faultsLeft - 1
          /\ stack' = SetTop(
                IF out = "found" THEN [Top EXCEPT !.phase = "ensure"]
                ELSE [Top EXCEPT !.ci = Top.ci + 1])
          /\ Log(Counted(Event("exists", Top.group, CurProject, CurBranch, out),
                         status))
    /\ UNCHANGED <<listVars, recVars>>

\* glClient.EnsureBranchProtection(project.ID, branch) is called: in the
\* client.go build after BranchExists said true, in the part_000 build for
\* the default branch as it is
WalkEnsure ==
    /\ \/ Walking("ensure")
       \/ Walking("branch") /\ Top.ci <= Len(CurBranches) /\ build = "part_000"
    /\ Enter(<<CurProject, CurBranch>>)
    /\ stack' = SetTop([Top EXCEPT !.phase = "ensuring"])
    /\ Log(Event("ensure", Top.group, CurProject, CurBranch, ""))
    /\ UNCHANGED listVars

\* EnsureBranchProtection returned: an error is logged; next branch
WalkEnsured ==
    /\ Walking("ensuring")
    /\ rpc = "done"
    /\ stack' = SetTop([Top EXCEPT !.phase = "branch", !.ci = Top.ci + 1])
    /\ Log(Event("ensured", Top.group, CurProject, CurBranch,
                 IF result.ok THEN "ok" ELSE "error"))
    /\ UNCHANGED <<listVars, recVars, faultsLeft>>

\* glClient.ListSubgroups(groupID) is called
WalkListSubgroups ==
    /\ Walking("listSubgroups")
    /\ ListEnter("subgroups", Len(Subgroups[Top.group]))
    /\ stack' = SetTop([Top EXCEPT !.phase = "subgroupsListed"])
    /\ UNCHANGED <<events, recVars>>

\* (mutant) a failed subgroup listing is waited on for ever
WalkSubgroupsStuck ==
    /\ Walking("subgroupsListed")
    /\ lpc = "done"
    /\ IF lresult.ok
       THEN /\ stack' = SetTop([Top EXCEPT !.phase = "subgroup", !.si = 1,
                           !.subs = [i \in 1..Len(lresult.items) |->
                                        Subgroups[Top.group][lresult.items[i]]]])
            /\ Log(Counted(Event("listSubgroups", Top.group, 0, "", "ok"),
                           Len(lresult.items)))
       ELSE UNCHANGED <<stack, events>>
    /\ UNCHANGED <<listVars, recVars, faultsLeft>>

\* ListSubgroups returned: on an error ProcessGroup returns, else loop
WalkSubgroups ==
    /\ Walking("subgroupsListed")
    /\ lpc = "done"
    /\ stack' =
          IF lresult.ok
          THEN SetTop([Top EXCEPT !.phase = "subgroup", !.si = 1,
                           !.subs = [i \in 1..Len(lresult.items) |->
                                        Subgroups[Top.group][lresult.items[i]]]])
          ELSE SubSeq(stack, 1, Len(stack) - 1)
    /\ Log(Counted(Event("listSubgroups", Top.group, 0, "",
                         IF lresult.ok THEN "ok" ELSE "error"),
                   Len(lresult.items)))
    /\ UNCHANGED <<listVars, recVars, faultsLeft>>

\* (mutant) only the first subgroup is entered
WalkSubgroupFirstOnly ==
    /\ Walking("subgroup")
    /\ IF Top.si > Len(Top.subs)
       THEN /\ stack' = SubSeq(stack, 1, Len(stack) - 1)
            /\ UNCHANGED events
       ELSE /\ stack' = Append(SetTop([Top EXCEPT !.si = Len(Top.subs) + 1]),
                               Frame(Top.subs[Top.si]))
            /\ Log(Event("enter", Top.subs[Top.si], 0, "", ""))
    /\ UNCHANGED <<listVars, recVars, faultsLeft>>

\* (mutant) the subgroups are entered last to first
WalkSubgroupReversed ==
    /\ Walking("subgroup")
    /\ IF Top.si > Len(Top.subs)
       THEN /\ stack' = SubSeq(stack, 1, Len(stack) - 1)
            /\ UNCHANGED events
       ELSE /\ stack' = Append(SetTop([Top EXCEPT !.si = Top.si + 1]),
                               Frame(Top.subs[Len(Top.subs) + 1 - Top.si]))
            /\ Log(Event("enter", Top.subs[Len(Top.subs) + 1 - Top.si],
                         0, "", ""))
    /\ UNCHANGED <<listVars, recVars, faultsLeft>>

\* for _, subgroup := range subgroupList: ProcessGroup(subgroup); after the
\* last one ProcessGroup returns
WalkSubgroup ==
    /\ Walking("subgroup")
    /\ IF Top.si > Len(Top.subs)
       THEN /\ stack' = SubSeq(stack, 1, Len(stack) - 1)
            /\ UNCHANGED events
       ELSE /\ stack' = Append(SetTop([Top EXCEPT !.si = Top.si + 1]),
                               Frame(Top.subs[Top.si]))
            /\ Log(Event("enter", Top.subs[Top.si], 0, "", ""))
    /\ UNCHANGED <<listVars, recVars, faultsLeft>>

\* main: ProcessGroup(root) on a tree where no branch or every branch of the
\* projects is protected already
InitWalk ==
    /\ build \in Builds
    /\ desired = [push |-> 30, merge |-> 30]
    /\ \E r \in {NoRule, Rule(40, 40), Rule(30, 30)} : rules = [k \in Keys |-> r]
    /\ target = <<11, "main">>
    /\ rpc = "idle"
    /\ result = Pending
    /\ calls = <<>>
    /\ callNo = 0
    /\ startRule = NoRule
    /\ prev = NoSummary
    /\ actorSteps = 0
    /\ endpoint = "projects"
    /\ total = 0
    /\ pageSize \in 1..2
    /\ lpc = "idle"
    /\ page = 1
    /\ all = <<>>
    /\ lresult = NotListed
    /\ reqs = <<>>
    /\ faultsLeft = MaxWalkFaults
    /\ stack = <<Frame(RootGroup)>>
    /\ events = <<Event("enter", RootGroup, 0, "", "")>>

NextWalk ==
    \/ WalkListProjects
    \/ FetchPage /\ UNCHANGED <<recVars, walkVars>>
    \/ WalkProjects
    \/ WalkProject
    \/ WalkProjectDone
    \/ WalkBranchExists
    \/ WalkEnsure
    \/ DoCreate /\ UNCHANGED <<listVars, walkVars>>
    \/ DoUpdate /\ UNCHANGED <<listVars, walkVars>>
    \/ DoVerify /\ UNCHANGED <<listVars, walkVars>>
    \/ DoDelete /\ UNCHANGED <<listVars, walkVars>>
    \/ DoRecreate /\ UNCHANGED <<listVars, walkVars>>
    \/ WalkEnsured
    \/ WalkListSubgroups
    \/ WalkSubgroups
    \/ WalkSubgroup

SpecWalk == InitWalk /\ [][NextWalk]_vars

\* the same walk when the process keeps running: some enabled step is
\* eventually taken (every call of the program blocks until it is answered or
\* fails, and nothing else can hold the single goroutine up)
SpecWalkFair == InitWalk /\ [][NextWalk]_vars /\ WF_vars(NextWalk)

-----------------------------------------------------------------------------
(* Claims about the reconciler, checked under SpecRec *)

Returned == rpc = "done"
Ops == [i \in 1..Len(calls) |-> calls[i].op]
Failed(c) == c.status = NoStatus \/ c.status >= 400
Conflicted == Len(calls) >= 1 /\ calls[1].op = "POST" /\ calls[1].status = StatusConflict

\* C1: whenever EnsureBranchProtection returns nil, the remote rule exists and
\* both its push and its merge level equal the desired levels.
C1_SuccessMeansDesired ==
    (Returned /\ result.ok) => rules[target] = Payload(desired)

\* C2: create answered conflict, update answered success and the read-back
\* showed a stored push level other than the desired one: the reconciliation
\* does not return before a delete and then a create were issued, and when
\* both succeed the rule has the desired levels.
UpdateNotApplied ==
    /\ Len(calls) >= 3
    /\ Conflicted
    /\ calls[2].op = "PATCH" /\ calls[2].status < 400
    /\ calls[3].op = "GET" /\ calls[3].status = StatusOK
    /\ calls[3].shown.push # desired.push

C2_EscalatesToRecreate ==
    UpdateNotApplied =>
        /\ Len(calls) = 3 => ~Returned
        /\ Len(calls) >= 4 => calls[4].op = "DELETE"
        /\ Len(calls) >= 5 => calls[5].op = "POST"
        /\ (Returned /\ Len(calls) = 5 /\ ~Failed(calls[4]) /\ ~Failed(calls[5]))
              => rules[target] = Payload(desired)

\* C3: a delete that fails (transport failure or error status) is the last
\* call of its reconciliation: no create follows, the rule stays as the
\* delete found it, and the error returned names the delete.
DeleteFailed(i) == calls[i].op = "DELETE" /\ Failed(calls[i])
NamesDelete(res) == ~res.ok /\ res.msg \in {"delete", "delete failed", "Delete"}

C3_State ==
    \A i \in 1..Len(calls) :
        DeleteFailed(i) =>
            /\ i = Len(calls)
            /\ Returned
            /\ NamesDelete(result)
            /\ result.status = calls[i].status

C3_Action ==
    (rpc = "delete" /\ rpc' # "delete" /\ Failed(calls'[Len(calls')]))
        => rules' = rules

C3_DeleteFailureIsTerminal == [](C3_State) /\ [][C3_Action]_vars

C3_Witness ==
    /\ Returned
    /\ Len(calls) >= 2
    /\ DeleteFailed(Len(calls))
    /\ calls[Len(calls)].status = 500
    /\ rules[target] # NoRule

\* C4: a delete answered 404 (rule already absent) counts as success: the
\* reconciliation goes on to the create and does not return a delete failure.
C4_NotFoundDeleteIsSuccess ==
    \A i \in 1..Len(calls) :
        (calls[i].op = "DELETE" /\ calls[i].status = StatusNotFound)
            => ~(Returned /\ i = Len(calls))

\* C5: two reconciliations in succession on a branch that starts unprotected,
\* every call answered by a healthy server and nobody else touching the rule:
\* the second issues no delete, the branch is protected in each of its states,
\* and it returns nil through create, update, verify with the same final rule.
SecondCallAfterCreate ==
    /\ callNo = 2
    /\ prev.returned /\ prev.start = NoRule /\ prev.result.ok /\ prev.clean
    /\ actorSteps = 0
    /\ Clean(calls)

C5_SecondCallIsNoOp ==
    SecondCallAfterCreate =>
        /\ rules[target] # NoRule
        /\ \A i \in 1..Len(calls) : calls[i].op # "DELETE"
        /\ Returned =>
              /\ result.ok
              /\ rules[target] = prev.rule
              /\ Ops = <<"POST", "PATCH", "GET">>

\* C6: a delete is issued only after a create answered conflict and an update
\* that answered an error status or was not confirmed by the read-back.
C6_DeleteOnlyAfterUnverifiedUpdate ==
    \A i \in 1..Len(calls) :
        calls[i].op = "DELETE" =>
            /\ Conflicted
            /\ i >= 3
            /\ calls[2].op = "PATCH"
            /\ \/ (i = 3 /\ calls[2].status >= 400)
               \/ (i = 4 /\ calls[2].status < 400 /\ calls[3].op = "GET"
                     /\ ~ProtectionHasLevel(
                            IF calls[3].status = StatusOK
                            THEN ProtectionJSON(calls[3].shown)
                            ELSE ErrorJSON(calls[3].status), desired.push))

-----------------------------------------------------------------------------
(* Claims about the listers, checked under SpecList *)

Listing == lpc = "done"
AllRegular == \A i \in 1..Len(reqs) : reqs[i].regular
Decoded(i) == Decode(reqs[i].answer.body)
DecodedEmpty(i) ==
    /\ reqs[i].answer.status # NoStatus
    /\ ~Decoded(i).err
    /\ Decoded(i).items = <<>>

Ceil(n, p) == (n + p - 1) \div p
Max(a, b) == IF a > b THEN a ELSE b

\* a page that decoded to an empty sequence is the last one requested
StopsAfterEmptyPage ==
    \A i \in 1..Len(reqs) : DecodedEmpty(i) => (i = Len(reqs) /\ Listing)

\* C8 (as claimed): with the next-page signal on every page but the last, a
\* listing of N records in pages of P issues exactly ceil(N/P) requests, for
\* every N >= 0, and stops right after a page that decodes to nothing.
C8_CeilRequests ==
    /\ (Listing /\ AllRegular) => Len(reqs) = Ceil(total, ServedPageSize)
    /\ StopsAfterEmptyPage

\* C8 (amended): the number of requests is ceil(N/P) for N >= 1 and 1 for
\* N = 0 (the first page is always requested), and the listing stops right
\* after a page that decodes to nothing.
C8_CeilRequestsAtLeastOne ==
    /\ (Listing /\ AllRegular) =>
          Len(reqs) = Max(1, Ceil(total, ServedPageSize))
    /\ StopsAfterEmptyPage

C8_Witness ==
    /\ Listing /\ AllRegular
    /\ total = 2 * ServedPageSize
    /\ Len(reqs) = 2
    /\ lresult.ok

RECURSIVE PagesUpTo(_)
PagesUpTo(k) ==
    IF k = 0 THEN <<>> ELSE PagesUpTo(k - 1) \o Decoded(k).items

\* C9: on success the result is the concatenation, in order, of the pages
\* 1..k requested, k being the first page that is empty or has no next-page
\* signal; page numbers are 1, 2, 3, ... in every listing; an empty first
\* page gives an empty result and no error.
C9_ConcatenationOfPages ==
    /\ \A i \in 1..Len(reqs) : reqs[i].page = i
    /\ (Listing /\ lresult.ok) =>
          /\ Len(reqs) >= 1
          /\ lresult.items = PagesUpTo(Len(reqs))
          /\ \A i \in 1..(Len(reqs) - 1) :
                Decoded(i).items # <<>> /\ reqs[i].answer.next # <<>>
          /\ \/ Decoded(Len(reqs)).items = <<>>
             \/ reqs[Len(reqs)].answer.next = <<>>
    /\ (Listing /\ Len(reqs) = 1 /\ DecodedEmpty(1)) => lresult = Listed(<<>>)

C9_Witness ==
    /\ Listing /\ lresult.ok
    /\ Len(reqs) = 3
    /\ lresult.items = <<1, 2, 3, 4, 5>>

\* C10: a page request that fails in transport or is answered with a non-2xx
\* status ends the listing with an error and no records, whatever the body.
PageFailed(i) ==
    \/ reqs[i].answer.status = NoStatus
    \/ reqs[i].answer.status \notin 200..299

C10_FailedPageAborts ==
    \A i \in 1..Len(reqs) :
        PageFailed(i) =>
            /\ i = Len(reqs)
            /\ Listing
            /\ ~lresult.ok
            /\ lresult.items = <<>>

-----------------------------------------------------------------------------
(* Claims about the walk, checked under SpecWalk *)

SameBranch(e, f) == e.project = f.project /\ e.branch = f.branch
Answered(j, out) == events[j].kind = "exists" /\ events[j].out = out

\* C7: no protection call is issued for a (project, branch) before an
\* existence check of that branch on that project was answered "found", and
\* none at all for a branch answered "not found".
C7_ProtectOnlyExistingBranches ==
    /\ \A i \in 1..Len(events) :
          events[i].kind = "ensure" =>
              /\ \E j \in 1..(i - 1) :
                    Answered(j, "found") /\ SameBranch(events[j], events[i])
              /\ \A j \in 1..Len(events) :
                    Answered(j, "notfound") => ~SameBranch(events[j], events[i])
    /\ calls # <<>> =>
          \E j \in 1..Len(events) :
              /\ Answered(j, "found")
              /\ events[j].project = target[1]
              /\ events[j].branch = target[2]

Finished == stack = <<>>
GroupOf(p) == CHOOSE g \in Groups : \E i \in 1..Len(ProjectsOf[g]) : ProjectsOf[g][i] = p

RECURSIVE BranchesOf(_, _, _)
\* the branches of the events of one kind about project p, up to event k
BranchesOf(kind, p, k) ==
    IF k = 0 THEN <<>>
    ELSE IF events[k].kind = kind /\ events[k].project = p
         THEN Append(BranchesOf(kind, p, k - 1), events[k].branch)
         ELSE BranchesOf(kind, p, k - 1)
BranchesChecked(p) == BranchesOf("exists", p, Len(events))
BranchesEnsured(p) == BranchesOf("ensure", p, Len(events))

NoDuplicates(s) == \A i, j \in 1..Len(s) : i # j => s[i] # s[j]

\* the candidate list the conventional-set policy gives
ConventionalSet(d) ==
    IF d \in {"", "main", "master"} THEN <<"main", "master">>
    ELSE <<d, "main", "master">>

\* the projects of group g have all been gone through
ProjectsDone(g) ==
    \E i \in 1..Len(events) :
        events[i].kind = "listSubgroups" /\ events[i].group = g
ProjectsListed(g, p) ==
    \E i \in 1..Len(events) :
        /\ events[i].kind = "listProjects" /\ events[i].group = g
        /\ events[i].out = "ok"
        /\ \E k \in 1..events[i].n : ProjectsOf[g][k] = p

\* the existence checks of project p, and the place of check i among them
ChecksOf(p) ==
    {i \in 1..Len(events) : events[i].kind = "exists" /\ events[i].project = p}
NthCheck(p, i) == Cardinality({j \in ChecksOf(p) : j <= i})

\* C11: under the conventional-set policy (client.go build) the branches of a
\* project are existence-checked in the order default (when it is non-empty
\* and neither main nor master), main, master, without duplicates; all of the
\* list is checked once the project is done; a branch is reconciled right
\* after its own check, so in the same order.
C11_ConventionalCandidates ==
    build = "client" =>
        /\ \A p \in Projects :
              /\ NoDuplicates(ConventionalSet(DefaultBranch[p]))
              /\ \A i \in ChecksOf(p) :
                    /\ NthCheck(p, i) <= Len(ConventionalSet(DefaultBranch[p]))
                    /\ events[i].branch =
                          ConventionalSet(DefaultBranch[p])[NthCheck(p, i)]
              /\ (ProjectsDone(GroupOf(p)) /\ ProjectsListed(GroupOf(p), p))
                    => Cardinality(ChecksOf(p))
                          = Len(ConventionalSet(DefaultBranch[p]))
        /\ \A i \in 1..Len(events) :
              events[i].kind = "ensure" =>
                  /\ i > 1
                  /\ events[i - 1].kind = "exists"
                  /\ SameBranch(events[i - 1], events[i])

C11_Witness ==
    /\ build = "client"
    /\ Finished
    /\ BranchesChecked(11) = <<"develop", "main", "master">>
    /\ BranchesEnsured(11) = <<"develop", "main">>
    /\ BranchesChecked(12) = <<"main", "master">>
    /\ BranchesChecked(21) = <<"main", "master">>
    /\ BranchesChecked(31) = <<"main", "master">>

Parent(g) ==
    CHOOSE h \in Groups : \E i \in 1..Len(Subgroups[h]) : Subgroups[h][i] = g
AncestorsOf[g \in Groups] ==
    IF g = RootGroup THEN {} ELSE {Parent(g)} \cup AncestorsOf[Parent(g)]
Ancestors(g) == AncestorsOf[g]

EventsWhere(kind, g, p, b) ==
    {i \in 1..Len(events) :
        /\ events[i].kind = kind /\ events[i].group = g
        /\ events[i].project = p /\ events[i].branch = b}
Entered(g) == EventsWhere("enter", g, 0, "") # {}
SubgroupsListed(g) ==
    \E i \in EventsWhere("listSubgroups", g, 0, "") : events[i].out = "ok"
\* the subgroup listing of the parent of g succeeded and returned g
ListedByParent(g) ==
    \E i \in EventsWhere("listSubgroups", Parent(g), 0, "") :
        /\ events[i].out = "ok"
        /\ \E k \in 1..events[i].n : Subgroups[Parent(g)][k] = g
Attempts(p, b) == Cardinality(EventsWhere("ensure", GroupOf(p), p, b))
\* the selected branches of p that exist
SelectedExisting(p) ==
    {b \in Branches[p] :
        \E k \in 1..Len(ProtectedBranches(build, p)) :
            ProtectedBranches(build, p)[k] = b}
\* the selected branches of p that the walk goes on to reconcile: in the
\* client.go build those whose existence check said true, in the part_000
\* build (which has no check) the non-empty default branch
FoundSelected(p) ==
    {b \in BranchNames :
        /\ \E k \in 1..Len(ProtectedBranches(build, p)) :
              ProtectedBranches(build, p)[k] = b
        /\ build = "client" =>
              \E i \in EventsWhere("exists", GroupOf(p), p, b) :
                  events[i].out = "found"}

\* C12 as stated: once the walk is over, every project of every group whose
\* ancestors' subgroup listings all succeeded has had exactly one
\* reconciliation attempt per selected branch that exists, and a group whose
\* sibling's subgroup listing failed has been entered.
C12_EveryProjectReconciled ==
    Finished =>
        /\ \A g \in Groups :
              (\A a \in Ancestors(g) : SubgroupsListed(a)) =>
                  \A i \in 1..Len(ProjectsOf[g]) :
                      \A b \in SelectedExisting(ProjectsOf[g][i]) :
                          Attempts(ProjectsOf[g][i], b) = 1
        /\ \A g \in Groups \ {RootGroup} :
              (\A a \in Ancestors(g) : SubgroupsListed(a)) => Entered(g)

\* C12 amended: no branch of a project is reconciled twice; once the walk is
\* over, a group has been entered exactly when it is the root or its parent
\* was entered and the parent's subgroup listing succeeded and returned it
\* (so a failed subgroup listing of a group cuts only that group's subtree),
\* and a project has had exactly one reconciliation attempt per selected
\* branch found to exist exactly when the project listing of its entered
\* group succeeded and returned it; no other attempt is made, and every
\* attempt has returned.
C12_ListedProjectsReconciled ==
    /\ \A p \in Projects, b \in BranchNames : Attempts(p, b) <= 1
    /\ Finished =>
          /\ \A g \in Groups \ {RootGroup} :
                Entered(g) <=> (Entered(Parent(g)) /\ ListedByParent(g))
          /\ \A g \in Groups :
                Cardinality(EventsWhere("enter", g, 0, "")) <= 1
          /\ \A p \in Projects, b \in BranchNames :
                Attempts(p, b) = 1 <=>
                    /\ ProjectsListed(GroupOf(p), p)
                    /\ b \in FoundSelected(p)
          /\ \A p \in Projects, b \in BranchNames :
                Cardinality(EventsWhere("ensured", GroupOf(p), p, b))
                    = Attempts(p, b)

\* the project listing of group 2 failed, its subgroup was walked all the
\* same, and so was its sibling
C12_Witness ==
    /\ Finished
    /\ \E i \in EventsWhere("listProjects", 2, 0, "") : events[i].out = "error"
    /\ Attempts(21, "master") = 0
    /\ Attempts(41, "develop") = 1
    /\ Attempts(11, "develop") = 1
    /\ Entered(3)

ProjectListingFailed(g) ==
    {i \in EventsWhere("listProjects", g, 0, "") : events[i].out = "error"}

\* C13: when listing the projects of a group fails, no project of that group
\* is checked or reconciled, and the next thing the walk does is to list that
\* group's subgroups; when that listing succeeds every subgroup it returned
\* is entered.
C13_ProjectListingFailureKeepsSubgroups ==
    \A g \in Groups : \A i \in ProjectListingFailed(g) :
        /\ \A j \in 1..Len(events) :
              events[j].group = g => events[j].project = 0
        /\ i = Len(events) =>
              /\ Len(stack) > 0
              /\ Top.group = g
              /\ Top.phase \in {"listSubgroups", "subgroupsListed"}
        /\ i < Len(events) =>
              /\ events[i + 1].kind = "listSubgroups"
              /\ events[i + 1].group = g
        /\ Finished =>
              \A j \in EventsWhere("listSubgroups", g, 0, "") :
                  events[j].out = "ok" =>
                      \A k \in 1..events[j].n : Entered(Subgroups[g][k])

C13_Witness ==
    /\ Finished
    /\ ProjectListingFailed(RootGroup) # {}
    /\ Attempts(11, "develop") = 0 /\ Attempts(12, "main") = 0
    /\ Entered(2) /\ Entered(3) /\ Entered(4)
    /\ Attempts(21, "master") = 1

Checks == {i \in 1..Len(events) : events[i].kind = "exists"}
CandidateIndex(p, b) ==
    CHOOSE k \in 1..Len(ProtectedBranches(build, p)) :
        ProtectedBranches(build, p)[k] = b
IsLastCandidate(p, b) ==
    CandidateIndex(p, b) = Len(ProtectedBranches(build, p))

\* C14: (client.go build) the existence check says true on 200, false on 404
\* and is an error on anything else; a check that is an error leaves its
\* branch unreconciled and the walk at the same project, where the next
\* candidate, if there is one, is checked next; a candidate found to exist is
\* reconciled next.
C14_FailedCheckSkipsOneCandidate ==
    build = "client" =>
        \A i \in Checks :
            LET e == events[i] IN
            /\ e.out = "found" <=> e.n = StatusOK
            /\ e.out = "notfound" <=> e.n = StatusNotFound
            /\ e.out = "error" <=> e.n \notin {StatusOK, StatusNotFound}
            /\ e.out # "found" => Attempts(e.project, e.branch) = 0
            /\ (e.out # "found" /\ i = Len(events)
                  /\ ~IsLastCandidate(e.project, e.branch)) =>
                  /\ Len(stack) > 0
                  /\ Top.group = e.group /\ Top.phase = "branch"
                  /\ CurProject = e.project
                  /\ Top.ci = CandidateIndex(e.project, e.branch) + 1
            /\ (e.out # "found" /\ i < Len(events)
                  /\ ~IsLastCandidate(e.project, e.branch)) =>
                  /\ events[i + 1].kind = "exists"
                  /\ events[i + 1].project = e.project
                  /\ events[i + 1].branch =
                        ProtectedBranches(build, e.project)
                            [CandidateIndex(e.project, e.branch) + 1]
            /\ (e.out = "found" /\ i < Len(events)) =>
                  /\ events[i + 1].kind = "ensure"
                  /\ SameBranch(e, events[i + 1])

\* the check of the default branch of project 11 failed; main was checked
\* and reconciled after it
C14_Witness ==
    /\ build = "client"
    /\ Finished
    /\ \E i \in Checks :
          /\ events[i].project = 11 /\ events[i].branch = "develop"
          /\ events[i].out = "error"
          /\ events[i + 1].kind = "exists" /\ events[i + 1].branch = "main"
          /\ events[i + 1].out = "found"
          /\ events[i + 2].kind = "ensure" /\ events[i + 2].branch = "main"
    /\ Attempts(11, "develop") = 0
    /\ Attempts(11, "main") = 1

Subtree(g) == {h \in Groups : h = g \/ g \in Ancestors(h)}
ProjectCalls == {"listProjects", "exists", "ensure", "ensured"}
\* h1 comes before h2 in the subgroup listing of their common parent
ListedBefore(h1, h2) ==
    \E g \in Groups : \E k1, k2 \in 1..Len(Subgroups[g]) :
        k1 < k2 /\ Subgroups[g][k1] = h1 /\ Subgroups[g][k2] = h2
\* the pairs <<g, h>> with h a descendant of g
Above ==
    UNION {{<<g, h>> : h \in {x \in Groups : g \in Ancestors(x)}} : g \in Groups}
\* the pairs <<g, h>> with g in the subtree of an earlier sibling of the
\* subgroup whose subtree h is in
Leftof ==
    UNION {{<<g, h>> : h \in {x \in Groups :
                \E h1, h2 \in Groups :
                    /\ ListedBefore(h1, h2)
                    /\ g \in Subtree(h1) /\ x \in Subtree(h2)}} : g \in Groups}

\* C15: the walk is sequential and depth first: everything done for the
\* projects of a group comes before anything done for a descendant group;
\* sibling subgroups are entered in listing order, the whole subtree of one
\* before the next is entered; a reconciliation is in progress only between
\* its start and its return, for the branch the walk is at, and never while a
\* listing is being fetched or another reconciliation is under way.  (The
\* log only grows at its end, so the order of every two entries is settled by
\* comparing the newest entry with each earlier one in every state.)
C15_SequentialDepthFirst ==
    /\ LET j == Len(events) IN
       \A i \in 1..(j - 1) :
          /\ ~(/\ events[j].kind \in ProjectCalls
               /\ <<events[j].group, events[i].group>> \in Above)
          /\ <<events[j].group, events[i].group>> \notin Leftof
    /\ \A i \in 1..Len(events) :
          events[i].kind = "ensure" =>
              IF i = Len(events)
              THEN /\ Walking("ensuring")
                   /\ target = <<events[i].project, events[i].branch>>
              ELSE /\ events[i + 1].kind = "ensured"
                   /\ SameBranch(events[i], events[i + 1])
    /\ rpc \in Active =>
          /\ Walking("ensuring")
          /\ target = <<CurProject, CurBranch>>
          /\ events[Len(events)].kind = "ensure"
          /\ lpc # "fetch"
    /\ lpc = "fetch" =>
          /\ Len(stack) > 0
          /\ Top.phase \in {"projectsListed", "subgroupsListed"}

\* the whole tree was walked: group 4 under group 2 before group 3
C15_Witness ==
    /\ Finished
    /\ Entered(2) /\ Entered(3) /\ Entered(4)
    /\ \A i \in EventsWhere("enter", 3, 0, "") :
          \E j \in 1..(i - 1) :
              events[j].kind = "ensured" /\ events[j].project = 41
    /\ Attempts(31, "main") + Attempts(41, "develop") >= 1
    /\ Attempts(11, "develop") = 1

\* C16: ProcessGroup on the root returns in the end, whichever calls fail
\* on the way; when it has returned it did so from the end of the root's own
\* pass (its subgroup listing was reached) with no call left in progress.
C16_WalkReturns ==
    /\ <>Finished
    /\ [](Finished =>
            /\ EventsWhere("listSubgroups", RootGroup, 0, "") # {}
            /\ rpc \notin Active
            /\ lpc # "fetch")

\* the walk is over although a reconciliation on the way failed
C16_Witness ==
    /\ Finished
    /\ faultsLeft = 0
    /\ \E i \in 1..Len(events) :
          events[i].kind = "ensured" /\ events[i].out = "error"
    /\ Entered(3) /\ Entered(4)

EventsAbout(p) == {i \in 1..Len(events) : events[i].project = p}

\* C17: under the default-only policy (part_000 build) nothing but the
\* declared default branch of a project is reconciled, no existence check is
\* made, and a project whose default branch is empty gets no call at all;
\* every other listed project has had its default branch reconciled once its
\* group's projects are done.
C17_DefaultBranchOnly ==
    build = "part_000" =>
        /\ Checks = {}
        /\ \A p \in Projects :
              /\ \A i \in EventsAbout(p) :
                    /\ events[i].kind \in {"ensure", "ensured"}
                    /\ events[i].branch = DefaultBranch[p]
              /\ DefaultBranch[p] = "" => EventsAbout(p) = {}
              /\ (DefaultBranch[p] # "" /\ ProjectsDone(GroupOf(p))
                    /\ ProjectsListed(GroupOf(p), p)) =>
                    Attempts(p, DefaultBranch[p]) = 1
        /\ rpc \in Active => target[2] = DefaultBranch[target[1]]

\* project 31, which has no default branch, was listed and passed over
C17_Witness ==
    /\ build = "part_000"
    /\ Finished
    /\ ProjectsListed(3, 31)
    /\ EventsAbout(31) = {}
    /\ Attempts(11, "develop") = 1 /\ Attempts(11, "main") = 0
    /\ Attempts(12, "main") = 1 /\ Attempts(12, "master") = 0

-----------------------------------------------------------------------------
(* Further claims about EnsureBranchProtection, checked under SpecRec *)

UpdateRefused ==
    /\ Len(calls) >= 2
    /\ Conflicted
    /\ calls[2].op = "PATCH" /\ calls[2].status >= 400

\* C18: create answered conflict and the update answered with an error
\* status: the reconciliation does not return on the update and makes no
\* read-back; the next call is the delete and, when that succeeds, the create;
\* what is returned is the outcome of that delete and create, never an error
\* of the update.
C18_RefusedUpdateEscalates ==
    UpdateRefused =>
        /\ Len(calls) = 2 => rpc = "delete"
        /\ Len(calls) >= 3 => calls[3].op = "DELETE"
        /\ Len(calls) >= 4 => calls[4].op = "POST"
        /\ \A i \in 1..Len(calls) : calls[i].op # "GET"
        /\ Returned =>
              IF Failed(calls[3])
              THEN /\ Len(calls) = 3
                   /\ NamesDelete(result)
                   /\ result.status = calls[3].status
              ELSE /\ Len(calls) = 4
                   /\ result.ok <=> ~Failed(calls[4])
                   /\ ~result.ok =>
                         /\ result.msg \in {"re-create", "Post"}
                         /\ result.status = calls[4].status

C18_Witness ==
    /\ UpdateRefused
    /\ Returned
    /\ Ops = <<"POST", "PATCH", "DELETE", "POST">>
    /\ result.ok
    /\ rules[target] = Payload(desired)

\* C19: the verification confirms (the reconciliation returns nil right
\* after the read-back) exactly when the read-back was answered with success
\* and the push level it showed equals the desired push level.
C19_VerifyConfirmsOnPushLevel ==
    (Len(calls) = 3 /\ calls[3].op = "GET" /\ calls[3].status # NoStatus) =>
        ((Returned /\ result.ok) <=>
            /\ calls[3].status = StatusOK
            /\ calls[3].shown.push = desired.push)

\* the place of call i in the order create, update, read-back, delete, create
RankAt(i) ==
    IF i = 1 THEN 1
    ELSE IF calls[i].op = "PATCH" THEN 2
    ELSE IF calls[i].op = "GET" THEN 3
    ELSE IF calls[i].op = "DELETE" THEN 4
    ELSE 5

\* C20: one reconciliation makes at most five calls, in the order create,
\* update, read-back, delete, create with each at most once; the second
\* create comes only directly after a delete that succeeded and is the last
\* call; nothing is retried.
C20_NoRetry ==
    /\ Len(calls) <= 5
    /\ Len(calls) >= 1 => calls[1].op = "POST"
    /\ \A i, j \in 1..Len(calls) : i < j => RankAt(i) < RankAt(j)
    /\ \A i \in 2..Len(calls) :
          calls[i].op = "POST" =>
              /\ calls[i - 1].op = "DELETE" /\ ~Failed(calls[i - 1])
              /\ i = Len(calls)
              /\ Returned
    /\ Len(calls) = 5 => Returned

C20_Witness ==
    /\ Returned
    /\ Ops = <<"POST", "PATCH", "GET", "DELETE", "POST">>
    /\ ~Failed(calls[5])
    /\ result.ok

\* the last two calls were a delete that succeeded and a create that failed
RecreateFailedAfterDelete ==
    /\ Len(calls) >= 2
    /\ calls[Len(calls) - 1].op = "DELETE" /\ ~Failed(calls[Len(calls) - 1])
    /\ calls[Len(calls)].op = "POST" /\ Failed(calls[Len(calls)])
\* the call started on a protected branch and nobody else touched the rule
ProtectedAtCall == startRule # NoRule /\ actorSteps = 0

\* C21: a call that started on a protected branch, with no other actor
\* changing the rule meanwhile, returns with the rule gone only when its
\* delete succeeded and the create after it failed, and then it returns an
\* error; in every other outcome the branch is still protected on return.
C21_UnprotectedOnlyAfterFailedRecreate ==
    (Returned /\ ProtectedAtCall) =>
        /\ rules[target] = NoRule => (RecreateFailedAfterDelete /\ ~result.ok)
        /\ ~RecreateFailedAfterDelete => rules[target] # NoRule
        /\ RecreateFailedAfterDelete => ~result.ok

C21_Witness ==
    /\ Returned
    /\ ProtectedAtCall
    /\ RecreateFailedAfterDelete
    /\ rules[target] = NoRule
    /\ ~result.ok

=============================================================================
